---- MODULE Spec2Model ----
(***************************************************************************)
(* Procedure list engine, saved-list persistence, CSV export, PDF          *)
(* generator, search, store and table pages of the isolation manager: the  *)
(* client state of the IsolationManagement page, its ListBuilder and its   *)
(* IsolationTable, the server store and the routes they call, and the      *)
(* document the PDF generator draws.                                       *)
(*                                                                         *)
(* Array indices are 0-based as in the source; At/SpliceRemove/            *)
(* SpliceInsert translate them to TLA+ sequences.                          *)
(***************************************************************************)
EXTENDS Integers, Sequences, FiniteSets, TLC

VARIABLES
    isolationPointsMap,   \* server: catalog records in Map insertion order
    savedListsMap,        \* server: saved list records in Map insertion order
    currentIsolationPointId, \* server: next catalog record id
    currentSavedListId,   \* server: next saved list id
    currentList,          \* client: useState<IsolationPoint[]> of the page
    selectedPoints,       \* client: ids ticked in the table
    draggedIndex,         \* client: ListBuilder drag state, NULL or an index
    listName,             \* client: ListBuilder name input
    toast,                \* client: the toast raised by the last handler
    exportResponse,       \* client: the last answer of the export endpoint
    lastOp,               \* history: the last handler run and its arguments
    csvText,              \* server: the text the export route sends
    pdfExportData,        \* client: the data handed to generateLOTOPDF
    doc,                  \* client: the jsPDF document of the generator
    filters,              \* server: the FilterOptions of the search request
    searchResult,         \* server: what searchIsolationPoints gave
    globalSearch,         \* client: the search input of the page
    currentPage,          \* client: useState(1) of the isolation table
    tablePoints           \* client: the points prop of the isolation table

vars == <<isolationPointsMap, savedListsMap, currentIsolationPointId,
          currentSavedListId, currentList,
          selectedPoints, draggedIndex, listName, toast, exportResponse, lastOp,
          csvText, pdfExportData, doc, filters, searchResult, globalSearch,
          currentPage, tablePoints>>

serverVars == <<isolationPointsMap, savedListsMap, currentIsolationPointId,
                currentSavedListId>>

\* the state of the page and of its list builder
pageVars == <<currentList, selectedPoints, draggedIndex, listName, toast,
              exportResponse, lastOp>>

\* the inputs and outputs of the CSV text, of the PDF generator and of the
\* search
renderVars == <<csvText, pdfExportData, doc, filters, searchResult,
                globalSearch, currentPage, tablePoints>>

\* the state of the isolation table
tableVars == <<currentPage, tablePoints>>

-----------------------------------------------------------------------------
(* Bounds *)

NumPoints == 3        \* catalog records seeded
MaxSaved == 3         \* saved list records the store may hold
MaxCreated == 1       \* records of a kind created through the store

-----------------------------------------------------------------------------
(* Values *)

NULL == -1

Undefined == [undefined |-> TRUE]

\* new Date(): the time the store was constructed, and the time of a call
\* made after that
Constructed == "constructed"

Later == "later"

\* a column that is null in the record
NullText == <<"NULL">>

methodOptions == <<"Close and LOTO", "Open and LOTO">>

MethodSet == {methodOptions[i] : i \in 1..Len(methodOptions)}

\* the kks of the sample points
KksCodes == <<"1AAA01AA001", "1BBB02AA015", "2CCC03AA027", "3DDD04AA042",
              "1EEE05AA089">>

\* the unit and the description of the sample points
SampleUnits == <<"Unit 1", "Unit 1", "Unit 2", "Unit 3", "Unit 1">>

SampleDescriptions ==
    <<"Primary Coolant Pump Motor Breaker", "Main Steam Isolation Valve",
      "Hydraulic System Isolation", "Compressed Air System Isolator",
      "Emergency Shutdown Breaker">>

\* catalog record i; its method is one of the method options
SamplePoint(i) ==
    [id |-> i,
     kks |-> KksCodes[((i - 1) % Len(KksCodes)) + 1],
     unit |-> SampleUnits[((i - 1) % Len(SampleUnits)) + 1],
     description |->
         SampleDescriptions[((i - 1) % Len(SampleDescriptions)) + 1],
     isolationMethod |-> methodOptions[((i - 1) % Len(methodOptions)) + 1],
     createdAt |-> Constructed]

PointIds == 1..NumPoints

-----------------------------------------------------------------------------
(* JavaScript array helpers *)

\* array[i]: undefined outside the bounds
At(list, i) ==
    IF i >= 0 /\ i < Len(list) THEN list[i + 1] ELSE Undefined

\* array.splice(i, 1) for i >= 0: nothing is removed at or past the end
SpliceRemove(list, i) ==
    IF i >= 0 /\ i < Len(list)
    THEN SubSeq(list, 1, i) \o SubSeq(list, i + 2, Len(list))
    ELSE list

\* array.splice(i, 0, x) for i >= 0: the start is clamped to the length
SpliceInsert(list, i, x) ==
    LET k == IF i > Len(list) THEN Len(list) ELSE i
    IN  SubSeq(list, 1, k) \o <<x>> \o SubSeq(list, k + 1, Len(list))

\* array.some(e => e.id === id)
SomeId(list, id) == \E i \in 1..Len(list) : list[i].id = id

\* array.map(e => e.id)
MapIds(list) == [i \in 1..Len(list) |-> list[i].id]

\* ids.includes(id)
Includes(ids, id) == \E i \in 1..Len(ids) : ids[i] = id

-----------------------------------------------------------------------------
(* Reads of the store *)

getAllIsolationPoints == isolationPointsMap

\* the page's query data for /api/isolation-points
allIsolationPoints == getAllIsolationPoints

getAllSavedLists == savedListsMap

\* the list builder renders its cards, and with them every handler of the
\* page, only while no entry of the list is undefined: reading point.id of
\* an undefined entry throws during render
Rendered == \A i \in 1..Len(currentList) : currentList[i] # Undefined

-----------------------------------------------------------------------------
(* Initial state *)

SampleLists ==
    <<[id |-> 1, name |-> <<"U">>,
       isolationPointIds |-> [i \in 1..NumPoints |-> i],
       createdAt |-> Constructed, updatedAt |-> Constructed],
      [id |-> 2, name |-> <<"E">>,
       isolationPointIds |-> [i \in 1..NumPoints |->
                                 IF i = 1 THEN NumPoints ELSE i - 1],
       createdAt |-> Constructed, updatedAt |-> Constructed]>>

NoToast == [title |-> "", n |-> 0]

NoResponse == [status |-> 0, contentType |-> "", disposition |-> "",
               header |-> <<>>, rows |-> <<>>]

\* lastOp: the handler, its arguments (pointId, index, arg) and the length
\* of the list it found (n)
NoOp == [op |-> "init", pointId |-> NULL, index |-> NULL, arg |-> <<>>,
         n |-> 0]

Op(name, pointId, index, arg) ==
    [op |-> name, pointId |-> pointId, index |-> index, arg |-> arg,
     n |-> Len(currentList)]

\* a handler none of whose arguments is observed
Ran(name) == [NoOp EXCEPT !.op = name]

\* the page as mounted: the useState initial values
InitPage ==
    /\ currentList = <<>>
    /\ selectedPoints = {}
    /\ draggedIndex = NULL
    /\ listName = <<>>
    /\ toast = NoToast
    /\ exportResponse = NoResponse
    /\ lastOp = NoOp

\* the sample saved lists of the store
InitSavedLists ==
    /\ savedListsMap = SampleLists
    /\ currentSavedListId = Len(SampleLists) + 1

NoFilters == [none |-> TRUE]

NoResult == [called |-> FALSE, error |-> "", points |-> <<>>, rows |-> {}]

NoData == [none |-> TRUE]

NoDoc == [none |-> TRUE]

\* the table is mounted on its first page, with no points while they load
InitTable ==
    /\ currentPage = 1
    /\ tablePoints = <<>>

\* no export text sent, no document generated, no search run
InitRender ==
    /\ csvText = <<>>
    /\ pdfExportData = NoData
    /\ doc = NoDoc
    /\ filters = NoFilters
    /\ searchResult = NoResult
    /\ globalSearch = <<>>
    /\ InitTable

Init ==
    /\ isolationPointsMap = [i \in 1..NumPoints |-> SamplePoint(i)]
    /\ currentIsolationPointId = NumPoints + 1
    /\ InitSavedLists
    /\ InitPage
    /\ InitRender

-----------------------------------------------------------------------------
(* IsolationManagement page: list handlers *)

\* the filter left out: every given point counts as new
NewPoints_NoFilter(list, points) == points

\* points.filter(point => !currentList.some(listPoint => listPoint.id === point.id))
NewPoints(list, points) ==
    SelectSeq(points, LAMBDA point : ~SomeId(list, point.id))

\* the toast counts the points given instead of the points added
handleAddToList_CountsGiven(points) ==
    LET newPoints == NewPoints(currentList, points)
    IN  /\ currentList' = currentList \o newPoints
        /\ toast' = [title |-> "Added to List", n |-> Len(points)]

handleAddToList(points) ==
    LET newPoints == NewPoints(currentList, points)
    IN  /\ currentList' = currentList \o newPoints
        /\ toast' = [title |-> "Added to List", n |-> Len(newPoints)]

\* the "+" button of a table row and of the detail modal
AddPointToList ==
    /\ Rendered
    /\ \E i \in 1..Len(allIsolationPoints) :
          /\ handleAddToList(<<allIsolationPoints[i]>>)
          /\ lastOp' = Op("add", NULL, NULL, <<allIsolationPoints[i]>>)
    /\ UNCHANGED renderVars
    /\ UNCHANGED <<serverVars, selectedPoints, draggedIndex, listName,
                   exportResponse>>

handlePointSelection(pointIds) ==
    selectedPoints' = pointIds

\* IsolationTable: the checkbox of a displayed row, checked being
\* !selectedPoints.includes(point.id)
handleSelectPoint ==
    /\ Rendered
    /\ \E i \in 1..Len(allIsolationPoints) :
          LET pointId == allIsolationPoints[i].id
              checked == pointId \notin selectedPoints
          IN  /\ handlePointSelection(IF checked
                                      THEN selectedPoints \cup {pointId}
                                      ELSE selectedPoints \ {pointId})
              /\ lastOp' = Ran("select")
    /\ toast' = NoToast
    /\ UNCHANGED renderVars
    /\ UNCHANGED <<serverVars, currentList, draggedIndex, listName,
                   exportResponse>>

handleAddSelectedToList ==
    /\ Rendered
    /\ selectedPoints # {}
    /\ LET pointsToAdd == SelectSeq(allIsolationPoints,
                              LAMBDA point : point.id \in selectedPoints)
       IN  /\ handleAddToList(pointsToAdd)
           /\ lastOp' = Op("add", NULL, NULL, pointsToAdd)
    /\ handlePointSelection({})
    /\ UNCHANGED renderVars
    /\ UNCHANGED <<serverVars, draggedIndex, listName, exportResponse>>

\* the comparison inverted: the entries with the id are the ones kept
RemoveId_KeepsMatch(list, pointId) ==
    SelectSeq(list, LAMBDA point : point.id = pointId)

\* currentList.filter(point => point.id !== pointId)
RemoveId(list, pointId) ==
    SelectSeq(list, LAMBDA point : point.id # pointId)

handleRemoveFromList(pointId) ==
    currentList' = RemoveId(currentList, pointId)

RemoveFromList ==
    /\ Rendered
    /\ \E pointId \in PointIds :
          /\ handleRemoveFromList(pointId)
          /\ lastOp' = Op("remove", pointId, NULL, <<>>)
    /\ toast' = NoToast
    /\ UNCHANGED renderVars
    /\ UNCHANGED <<serverVars, selectedPoints, draggedIndex, listName,
                   exportResponse>>

handleReorderList(newOrder) ==
    currentList' = newOrder

\* the id test left out: every entry gets the new method
WithMethod_EveryEntry(list, pointId, newMethod) ==
    [i \in 1..Len(list) |-> [list[i] EXCEPT !.isolationMethod = newMethod]]

\* currentList.map(point => point.id === pointId ? {...point, isolationMethod} : point)
WithMethod(list, pointId, newMethod) ==
    [i \in 1..Len(list) |->
        IF list[i].id = pointId
        THEN [list[i] EXCEPT !.isolationMethod = newMethod]
        ELSE list[i]]

handleUpdateIsolationMethod ==
    /\ Rendered
    /\ \E pointId \in PointIds, newMethod \in MethodSet :
          /\ currentList' = WithMethod(currentList, pointId, newMethod)
          /\ lastOp' = [Ran("override") EXCEPT !.pointId = pointId,
                                                 !.arg = newMethod]
    /\ toast' = [title |-> "Method Updated", n |-> 0]
    /\ UNCHANGED renderVars
    /\ UNCHANGED <<serverVars, selectedPoints, draggedIndex, listName,
                   exportResponse>>

-----------------------------------------------------------------------------
(* ListBuilder handlers *)

handleDragStart ==
    /\ Rendered
    /\ \E index \in 0..(Len(currentList) - 1) :
          /\ draggedIndex' = index
          /\ lastOp' = Ran("dragStart")
    /\ toast' = NoToast
    /\ UNCHANGED renderVars
    /\ UNCHANGED <<serverVars, currentList, selectedPoints, listName,
                   exportResponse>>

handleDragEnd ==
    /\ Rendered
    /\ draggedIndex' = NULL
    /\ lastOp' = Ran("dragEnd")
    /\ toast' = NoToast
    /\ UNCHANGED renderVars
    /\ UNCHANGED <<serverVars, currentList, selectedPoints, listName,
                   exportResponse>>

\* const newList = [...currentList]; const draggedItem = newList[draggedIndex];
\* newList.splice(draggedIndex, 1); newList.splice(index, 0, draggedItem);
DragOverList(list, dragged, index) ==
    SpliceInsert(SpliceRemove(list, dragged), index, At(list, dragged))

handleDragOver ==
    /\ Rendered
    /\ \E index \in 0..(Len(currentList) - 1) :
          /\ lastOp' = Ran("dragOver")
          /\ IF draggedIndex = NULL \/ draggedIndex = index
             THEN UNCHANGED <<currentList, draggedIndex>>
             ELSE /\ handleReorderList(
                        DragOverList(currentList, draggedIndex, index))
                  /\ draggedIndex' = index
    /\ toast' = NoToast
    /\ UNCHANGED renderVars
    /\ UNCHANGED <<serverVars, selectedPoints, listName, exportResponse>>

\* the item put back at fromIndex instead of toIndex
MoveItemList_SameIndex(list, fromIndex, toIndex) ==
    SpliceInsert(SpliceRemove(list, fromIndex), fromIndex, At(list, fromIndex))

\* const item = newList[fromIndex]; newList.splice(fromIndex, 1);
\* newList.splice(toIndex, 0, item);
MoveItemList(list, fromIndex, toIndex) ==
    SpliceInsert(SpliceRemove(list, fromIndex), toIndex, At(list, fromIndex))

moveItem ==
    /\ Rendered
    /\ \E fromIndex \in 0..(Len(currentList) - 1), direction \in {"up", "down"} :
          LET toIndex == IF direction = "up" THEN fromIndex - 1
                                             ELSE fromIndex + 1
          IN  /\ lastOp' = Op("move", NULL, fromIndex, direction)
              /\ IF toIndex < 0 \/ toIndex >= Len(currentList)
                 THEN UNCHANGED currentList
                 ELSE handleReorderList(
                          MoveItemList(currentList, fromIndex, toIndex))
    /\ toast' = NoToast
    /\ UNCHANGED renderVars
    /\ UNCHANGED <<serverVars, selectedPoints, draggedIndex, listName,
                   exportResponse>>

\* currentList.forEach(point => onRemoveFromList(point.id)): every call runs
\* handleRemoveFromList of the same render, whose currentList is the list the
\* forEach iterates; the value set by the last call is the next state
RECURSIVE ForEachRemove(_, _, _)
ForEachRemove(list, k, pending) ==
    IF k > Len(list)
    THEN pending
    ELSE ForEachRemove(list, k + 1, RemoveId(list, list[k].id))

clearList ==
    /\ Rendered
    /\ currentList' = ForEachRemove(currentList, 1, currentList)
    /\ toast' = [title |-> "List Cleared", n |-> 0]
    /\ lastOp' = Ran("clear")
    /\ UNCHANGED renderVars
    /\ UNCHANGED <<serverVars, selectedPoints, draggedIndex, listName,
                   exportResponse>>

-----------------------------------------------------------------------------
(* Saved lists: load, save *)

\* allIsolationPoints.filter(point => (list.isolationPointIds || []).includes(point.id))
ListPoints(points, isolationPointIds) ==
    SelectSeq(points, LAMBDA point : Includes(isolationPointIds, point.id))

LoadSavedList ==
    /\ Rendered
    /\ \E k \in 1..Len(getAllSavedLists) :
          LET list == getAllSavedLists[k]
              listPoints == ListPoints(allIsolationPoints, list.isolationPointIds)
          IN  /\ currentList' = listPoints
              /\ toast' = [title |-> "List Loaded", n |-> Len(listPoints)]
              /\ lastOp' = [Ran("load") EXCEPT !.pointId = list.id,
                                             !.arg = list.isolationPointIds]
    /\ UNCHANGED renderVars
    /\ UNCHANGED <<serverVars, selectedPoints, draggedIndex, listName,
                   exportResponse>>

Whitespace == {" "}

\* String.prototype.trim on a sequence of characters
RECURSIVE TrimStart(_)
TrimStart(s) ==
    IF s # <<>> /\ Head(s) \in Whitespace THEN TrimStart(Tail(s)) ELSE s

RECURSIVE TrimEnd(_)
TrimEnd(s) ==
    IF s # <<>> /\ s[Len(s)] \in Whitespace
    THEN TrimEnd(SubSeq(s, 1, Len(s) - 1))
    ELSE s

Trim(s) == TrimEnd(TrimStart(s))

NameInputs == {<<>>, <<" ">>, <<"A", " ">>}

setListName ==
    /\ Rendered
    /\ \E value \in NameInputs :
          /\ listName' = value
          /\ lastOp' = Ran("setListName")
    /\ toast' = NoToast
    /\ UNCHANGED renderVars
    /\ UNCHANGED <<serverVars, currentList, selectedPoints, draggedIndex,
                   exportResponse>>

\* MemStorage.createSavedList: const id = this.currentSavedListId++
\* the record is { ...insertList, id, createdAt, updatedAt }
createSavedList(insertList) ==
    /\ savedListsMap' = Append(savedListsMap,
                               [id |-> currentSavedListId, createdAt |-> Later,
                                updatedAt |-> Later] @@ insertList)
    /\ currentSavedListId' = currentSavedListId + 1

handleSaveList ==
    /\ Rendered
    /\ Len(savedListsMap) < MaxSaved
    /\ lastOp' = Ran("save")
    /\ IF Trim(listName) = <<>>
       THEN /\ toast' = [title |-> "Name Required", n |-> 0]
            /\ UNCHANGED <<savedListsMap, currentSavedListId, listName>>
       ELSE IF Len(currentList) = 0
       THEN /\ toast' = [title |-> "Empty List", n |-> 0]
            /\ UNCHANGED <<savedListsMap, currentSavedListId, listName>>
       ELSE /\ createSavedList([name |-> Trim(listName),
                                isolationPointIds |-> MapIds(currentList)])
            /\ toast' = [title |-> "List Saved", n |-> 0]
            /\ listName' = <<>>
    /\ UNCHANGED renderVars
    /\ UNCHANGED <<isolationPointsMap, currentIsolationPointId, currentList,
                   selectedPoints,
                   draggedIndex, exportResponse>>

\* a JSON value of a request body
JsonString(text) == [type |-> "string", value |-> text]

JsonNull == [type |-> "null", value |-> NullText]

\* a number, by its digits
JsonNumber(digits) == [type |-> "number", value |-> digits]

\* the bodies posted to /api/saved-lists: name left out, null, a text that
\* may be empty or blank, or a number
SavedListBodies ==
    {[isolationPointIds |-> ids] : ids \in {<<>>, <<1>>}}
        \cup {[isolationPointIds |-> ids, name |-> value] :
                 ids \in {<<>>, <<1>>},
                 value \in {JsonNull, JsonNumber(<<"7">>)}
                             \cup {JsonString(text) : text \in NameInputs}}

\* insertSavedListSchema: every column of saved_lists is nullable, so name is
\* an optional string or null
insertSavedListSchema(body) ==
    "name" \in DOMAIN body => body.name.type \in {"string", "null"}

\* the parsed body: the values of its properties
ParsedSavedList(body) ==
    [isolationPointIds |-> body.isolationPointIds]
        @@ (IF "name" \in DOMAIN body THEN [name |-> body.name.value]
            ELSE <<>>)

\* POST /api/saved-lists
PostSavedLists ==
    /\ Len(savedListsMap) < MaxSaved
    /\ \E body \in SavedListBodies :
          IF insertSavedListSchema(body)
          THEN /\ createSavedList(ParsedSavedList(body))
               /\ lastOp' = [Ran("postSavedList") EXCEPT !.arg = body,
                                                         !.index = 201]
          ELSE /\ lastOp' = [Ran("postSavedList") EXCEPT !.arg = body,
                                                         !.index = 400]
               /\ UNCHANGED <<savedListsMap, currentSavedListId>>
    /\ toast' = NoToast
    /\ UNCHANGED renderVars
    /\ UNCHANGED <<isolationPointsMap, currentIsolationPointId, currentList,
                   selectedPoints,
                   draggedIndex, listName, exportResponse>>

\* this.isolationPointsMap.get(id), this.savedListsMap.get(id)
Get(map, id) ==
    IF \E k \in 1..Len(map) : map[k].id = id
    THEN map[CHOOSE k \in 1..Len(map) : map[k].id = id]
    ELSE Undefined

\* map.set(id, record): a new key goes last, a key of the map keeps its place
MapSet(map, id, record) ==
    IF \E k \in 1..Len(map) : map[k].id = id
    THEN [k \in 1..Len(map) |-> IF map[k].id = id THEN record ELSE map[k]]
    ELSE Append(map, record)

\* map.delete(id)
MapDelete(map, id) == SelectSeq(map, LAMBDA record : record.id # id)

\* the ids a request names: those the store has given out and the next one
StoreIds == 1..(NumPoints + MaxCreated + 1)

\* the id of the record created: the number of records held plus one
NewPointId_Count == Len(isolationPointsMap) + 1

\* const id = this.currentIsolationPointId++
NewPointId == currentIsolationPointId

\* the record a client asks the store to create
InsertPoints ==
    {[kks |-> KksCodes[1], unit |-> SampleUnits[1],
      description |-> SampleDescriptions[1],
      isolationMethod |-> methodOptions[1]]}

\* MemStorage.createIsolationPoint, reached through POST /api/isolation-points
createIsolationPoint ==
    /\ currentIsolationPointId <= NumPoints + MaxCreated
    /\ \E insertPoint \in InsertPoints :
          LET id == NewPointId
              point == [id |-> id, createdAt |-> Later] @@ insertPoint
          IN  /\ isolationPointsMap' = MapSet(isolationPointsMap, id, point)
              /\ currentIsolationPointId' = id + 1
              /\ lastOp' = [Ran("createPoint") EXCEPT
                               !.pointId = id, !.arg = [returned |-> point]]
    /\ toast' = NoToast
    /\ UNCHANGED renderVars
    /\ UNCHANGED <<savedListsMap, currentSavedListId, currentList,
                   selectedPoints, draggedIndex, listName, exportResponse>>

\* the fields a client asks the store to change: Partial<InsertIsolationPoint>
PointUpdates ==
    {[key \in {} |-> <<>>]}
        \cup {[isolationMethod |-> method] : method \in MethodSet}

\* the record updateIsolationPoint stores: the fields of the record alone
UpdatedPoint_Replaced(existingPoint, updateData) ==
    [id |-> existingPoint.id] @@ updateData

\* { ...existingPoint, ...updateData }
UpdatedPoint(existingPoint, updateData) == updateData @@ existingPoint

\* MemStorage.updateIsolationPoint, reached through PUT /api/isolation-points/:id
updateIsolationPoint ==
    /\ \E id \in StoreIds, updateData \in PointUpdates :
          LET existingPoint == Get(isolationPointsMap, id)
          IN  IF existingPoint = Undefined
              THEN /\ lastOp' = [Ran("updatePoint") EXCEPT
                                    !.pointId = id,
                                    !.arg = [updateData |-> updateData,
                                             returned |-> Undefined]]
                   /\ UNCHANGED isolationPointsMap
              ELSE LET updatedPoint == UpdatedPoint(existingPoint, updateData)
                   IN  /\ isolationPointsMap' =
                             MapSet(isolationPointsMap, id, updatedPoint)
                       /\ lastOp' = [Ran("updatePoint") EXCEPT
                                        !.pointId = id,
                                        !.arg = [updateData |-> updateData,
                                                 returned |-> updatedPoint]]
    /\ toast' = NoToast
    /\ UNCHANGED renderVars
    /\ UNCHANGED <<savedListsMap, currentIsolationPointId, currentSavedListId,
                   currentList, selectedPoints, draggedIndex, listName,
                   exportResponse>>

\* MemStorage.deleteIsolationPoint, reached through DELETE /api/isolation-points/:id
deleteIsolationPoint ==
    /\ \E id \in StoreIds :
          /\ isolationPointsMap' = MapDelete(isolationPointsMap, id)
          /\ lastOp' = [Ran("deletePoint") EXCEPT
                           !.pointId = id,
                           !.arg = [returned |->
                                       Get(isolationPointsMap, id) # Undefined]]
    /\ toast' = NoToast
    /\ UNCHANGED renderVars
    /\ UNCHANGED <<savedListsMap, currentIsolationPointId, currentSavedListId,
                   currentList, selectedPoints, draggedIndex, listName,
                   exportResponse>>

\* the list a client asks the store to create
InsertLists == {[name |-> <<"N">>, isolationPointIds |-> <<1>>]}

\* MemStorage.createSavedList on a list that has a name
createNamedSavedList ==
    /\ currentSavedListId <= Len(SampleLists) + MaxCreated
    /\ \E insertList \in InsertLists :
          /\ createSavedList(insertList)
          /\ lastOp' = [Ran("createList") EXCEPT
                           !.pointId = currentSavedListId,
                           !.arg = [returned |->
                                       Get(savedListsMap', currentSavedListId)]]
    /\ toast' = NoToast
    /\ UNCHANGED renderVars
    /\ UNCHANGED <<isolationPointsMap, currentIsolationPointId, currentList,
                   selectedPoints, draggedIndex, listName, exportResponse>>

\* the fields a client asks the store to change: Partial<InsertSavedList>
ListUpdates == {[key \in {} |-> <<>>], [name |-> <<"R">>]}

\* { ...existingList, ...updateData, updatedAt: new Date() }
UpdatedList(existingList, updateData) ==
    [updatedAt |-> Later] @@ updateData @@ existingList

\* MemStorage.updateSavedList, reached through PUT /api/saved-lists/:id
updateSavedList ==
    /\ \E id \in StoreIds, updateData \in ListUpdates :
          LET existingList == Get(savedListsMap, id)
          IN  IF existingList = Undefined
              THEN /\ lastOp' = [Ran("updateList") EXCEPT
                                    !.pointId = id,
                                    !.arg = [updateData |-> updateData,
                                             returned |-> Undefined]]
                   /\ UNCHANGED savedListsMap
              ELSE LET updatedList == UpdatedList(existingList, updateData)
                   IN  /\ savedListsMap' =
                             MapSet(savedListsMap, id, updatedList)
                       /\ lastOp' = [Ran("updateList") EXCEPT
                                        !.pointId = id,
                                        !.arg = [updateData |-> updateData,
                                                 returned |-> updatedList]]
    /\ toast' = NoToast
    /\ UNCHANGED renderVars
    /\ UNCHANGED <<isolationPointsMap, currentIsolationPointId,
                   currentSavedListId, currentList, selectedPoints,
                   draggedIndex, listName, exportResponse>>

\* MemStorage.deleteSavedList, reached through DELETE /api/saved-lists/:id
deleteSavedList ==
    /\ \E id \in StoreIds :
          /\ savedListsMap' = MapDelete(savedListsMap, id)
          /\ lastOp' = [Ran("deleteList") EXCEPT
                           !.pointId = id,
                           !.arg = [returned |->
                                       Get(savedListsMap, id) # Undefined]]
    /\ toast' = NoToast
    /\ UNCHANGED renderVars
    /\ UNCHANGED <<isolationPointsMap, currentIsolationPointId,
                   currentSavedListId, currentList, selectedPoints,
                   draggedIndex, listName, exportResponse>>

-----------------------------------------------------------------------------
(* CSV export: POST /api/export/isolation-list *)

\* Array.isArray(req.body.isolationPointIds): a request body is a record of
\* the properties the sender set, an absent property reads as undefined
HasPointIds(body) == "isolationPointIds" \in DOMAIN body

csvHeader == <<"KKS", "Method">>

\* one template literal per selected point, of the columns the model keeps
CsvRow(p) == [KKS |-> p.kks, Method |-> p.isolationMethod]

\* points.filter(p => isolationPointIds.includes(p.id)) of the stored points
SelectedPoints(points, isolationPointIds) ==
    SelectSeq(points, LAMBDA p : Includes(isolationPointIds, p.id))

ExportIsolationList(body) ==
    IF ~HasPointIds(body)
    THEN [status |-> 400, contentType |-> "application/json",
          disposition |-> "", header |-> <<>>, rows |-> <<>>]
    ELSE LET selected == SelectedPoints(getAllIsolationPoints,
                                        body.isolationPointIds)
         IN  [status |-> 200, contentType |-> "text/csv",
              disposition |-> "attachment",
              header |-> csvHeader,
              rows |-> [i \in 1..Len(selected) |-> CsvRow(selected[i])]]

\* exportMutation.mutate({ isolationPointsList: currentList, ...exportData })
ExportRequest(list, exportData) ==
    [isolationPointsList |-> list, listName |-> exportData]

handleExportLists ==
    /\ Rendered
    /\ lastOp' = Ran("export")
    /\ IF Len(currentList) = 0
       THEN /\ toast' = [title |-> "No Points Selected", n |-> 0]
            /\ UNCHANGED exportResponse
       ELSE LET response == ExportIsolationList(
                                ExportRequest(currentList, listName))
            IN  /\ exportResponse' = response
                /\ toast' = [title |-> IF response.status = 200
                                       THEN "Export Successful"
                                       ELSE "Export Failed",
                             n |-> 0]
    /\ UNCHANGED renderVars
    /\ UNCHANGED <<serverVars, currentList, selectedPoints, draggedIndex,
                   listName>>

\* the id sequences another client of the endpoint posts
PostedIds == {<<>>} \cup {<<a>> : a \in PointIds}
                    \cup {<<a, b>> : a, b \in PointIds}

\* a request that carries isolationPointIds, as the route expects
PostExportIsolationList ==
    /\ \E ids \in PostedIds :
          /\ exportResponse' = ExportIsolationList([isolationPointIds |-> ids])
          /\ lastOp' = Ran("postExport")
    /\ toast' = NoToast
    /\ UNCHANGED renderVars
    /\ UNCHANGED <<serverVars, currentList, selectedPoints, draggedIndex,
                   listName>>

-----------------------------------------------------------------------------
(* The text of the CSV export.  A text is a sequence of tokens: the double *)
(* quote, the comma and the newline are tokens of their own, every other   *)
(* token is a run of characters that holds none of the three.              *)

DQ == "\""

Comma == ","

NL == "\n"

\* v || ''
OrEmpty(v) == IF v = NullText THEN <<>> ELSE v

\* ${v} in a template literal
Interpolate(v) == IF v = NullText THEN <<"null">> ELSE v

\* "${v}": the value between two double quotes, as it is
CsvField(v) == <<DQ>> \o Interpolate(v) \o <<DQ>>

\* texts.join(sep)
RECURSIVE Join(_, _)
Join(texts, sep) ==
    IF Len(texts) = 0 THEN <<>>
    ELSE IF Len(texts) = 1 THEN texts[1]
    ELSE texts[1] \o <<sep>> \o Join(Tail(texts), sep)

csvHeaderText ==
    <<"KKS", Comma, "Unit", Comma, "Description", Comma, "Type", Comma,
      "Panel KKS", Comma, "Load KKS", Comma, "Method", Comma,
      "Normal Position", Comma, "Isolation Position", Comma,
      "Special Instructions", NL>>

\* the template literal of one selected point
CsvLine(p) ==
    Join(<<CsvField(p.kks), CsvField(p.unit), CsvField(p.description),
           CsvField(p.type), CsvField(OrEmpty(p.panelKks)),
           CsvField(OrEmpty(p.loadKks)), CsvField(p.isolationMethod),
           CsvField(p.normalPosition), CsvField(OrEmpty(p.isolationPosition)),
           CsvField(OrEmpty(p.specialInstructions))>>, Comma)

\* selectedPoints.map(p => `...`).join('\n')
csvData(selected) ==
    Join([i \in 1..Len(selected) |-> CsvLine(selected[i])], NL)

\* res.send(csvHeader + csvData) of a request that carries isolationPointIds
\* the metadata a request body carries besides isolationPointIds
MetadataKeys == <<"name", "jsaNumber", "workOrder", "jobDescription">>

ExportMetadata ==
    {[key \in keys |-> "x"] :
        keys \in {{}, {"name"}, {"jsaNumber", "jobDescription"},
                  {"name", "jsaNumber", "workOrder", "jobDescription"}}}

\* the route reads isolationPointIds of the body and nothing else
ExportCsvText ==
    /\ \E ids \in PostedIds, metadata \in ExportMetadata :
          LET body == [isolationPointIds |-> ids] @@ metadata
          IN  /\ csvText' = csvHeaderText
                     \o csvData(SelectedPoints(getAllIsolationPoints,
                                               body.isolationPointIds))
              /\ lastOp' = [Ran("exportText") EXCEPT !.arg = body]
    /\ UNCHANGED <<serverVars, currentList, selectedPoints, draggedIndex,
                   listName, toast, exportResponse>>
    /\ UNCHANGED <<pdfExportData, doc, filters, searchResult, globalSearch>>
    /\ UNCHANGED tableVars

MaxField == 2         \* tokens of a drawn description

TextChars == {"Valve", Comma, DQ, NL}

FieldTexts == UNION {[1..n -> TextChars] : n \in 0..MaxField}

\* a stored record with the given description, its columns as texts
TextPoint(i, description) ==
    [id |-> i,
     kks |-> <<KksCodes[i]>>,
     unit |-> <<"Unit 1">>,
     description |-> description,
     type |-> <<"Electrical">>,
     panelKks |-> NullText,
     loadKks |-> <<>>,
     isolationMethod |-> <<"Circuit Breaker">>,
     normalPosition |-> <<"Closed">>,
     isolationPosition |-> NullText,
     specialInstructions |-> <<"Verify zero energy state">>]

\* a store of two records whose descriptions are free text
InitCsv ==
    /\ isolationPointsMap \in
          {<<TextPoint(1, a), TextPoint(2, b)>> : a, b \in FieldTexts}
    /\ currentIsolationPointId = NumPoints + 1
    /\ InitSavedLists
    /\ InitPage
    /\ InitRender

-----------------------------------------------------------------------------
(* PDF generator: EnterprisePDFGenerator over a jsPDF document.  The       *)
(* document is what was drawn: the texts with their page, the table rows   *)
(* with their table, page and section, the number of pages and the name it *)
(* was saved under.  A drawn text is a sequence of tokens.                 *)

FirstPageRows == 1    \* body rows of the steps table that fit below the
                      \* banner and the information table
PageRows == 2         \* body rows that fit on a page the table continues on

\* new jsPDF('l', 'mm', 'a4')
NewDoc == [numberOfPages |-> 1, texts |-> <<>>, rows |-> <<>>,
           filename |-> <<>>]

\* doc.text(text, x, y) on the page the document is at
DrawText(d, page, text) ==
    [d EXCEPT !.texts = Append(@, [page |-> page, text |-> text])]

Digits == <<"0", "1", "2", "3", "4", "5", "6", "7", "8", "9">>

\* Number.prototype.toString: the decimal digits
RECURSIVE toString(_)
toString(n) ==
    IF n < 10 THEN <<Digits[n + 1]>>
    ELSE toString(n \div 10) \o <<Digits[(n % 10) + 1]>>

LowerLetters ==
    <<"a", "b", "c", "d", "e", "f", "g", "h", "i", "j", "k", "l", "m",
      "n", "o", "p", "q", "r", "s", "t", "u", "v", "w", "x", "y", "z">>

UpperLetters ==
    <<"A", "B", "C", "D", "E", "F", "G", "H", "I", "J", "K", "L", "M",
      "N", "O", "P", "Q", "R", "S", "T", "U", "V", "W", "X", "Y", "Z">>

\* the upper-case letter of every lower-case letter, and the converse
UpperOf ==
    [c \in {LowerLetters[k] : k \in 1..Len(LowerLetters)} |->
        UpperLetters[CHOOSE k \in 1..Len(LowerLetters) : LowerLetters[k] = c]]

LowerOf ==
    [c \in {UpperLetters[k] : k \in 1..Len(UpperLetters)} |->
        LowerLetters[CHOOSE k \in 1..Len(UpperLetters) : UpperLetters[k] = c]]

\* String.prototype.toUpperCase, character by character
UpperChar(c) == IF c \in DOMAIN UpperOf THEN UpperOf[c] ELSE c

ToUpperCase(s) == [i \in 1..Len(s) |-> UpperChar(s[i])]

\* String.prototype.toLowerCase, character by character
LowerChar(c) == IF c \in DOMAIN LowerOf THEN LowerOf[c] ELSE c

ToLowerCase(s) == [i \in 1..Len(s) |-> LowerChar(s[i])]

\* replace(/[^a-zA-Z0-9]/g, '-')
IsAlphaNumeric(c) ==
    \/ c \in {LowerLetters[i] : i \in 1..Len(LowerLetters)}
    \/ c \in {UpperLetters[i] : i \in 1..Len(UpperLetters)}
    \/ c \in {Digits[i] : i \in 1..Len(Digits)}

ReplaceNonAlphaNumeric(s) ==
    [i \in 1..Len(s) |-> IF IsAlphaNumeric(s[i]) THEN s[i] ELSE "-"]

\* the rows autoTable draws for a body that starts on the given page with
\* room for the given number of body rows: the head row on every page the
\* table reaches, the body rows in order, a new page when the room is used up
RECURSIVE TableRows(_, _, _, _, _)
TableRows(table, head, body, page, room) ==
    LET n == IF Len(body) < room THEN Len(body) ELSE room
    IN  <<[table |-> table, page |-> page, section |-> "head", cells |-> head]>>
        \o [i \in 1..n |-> [table |-> table, page |-> page,
                            section |-> "body", cells |-> body[i]]]
        \o (IF Len(body) > n
            THEN TableRows(table, head, SubSeq(body, n + 1, Len(body)),
                           page + 1, PageRows)
            ELSE <<>>)

\* autoTable(this.doc, { startY, head, body, ... })
autoTable(d, table, head, body, room) ==
    LET drawn == TableRows(table, head, body, d.numberOfPages, room)
    IN  [d EXCEPT !.rows = @ \o drawn,
                  !.numberOfPages = drawn[Len(drawn)].page]

addHeader(d, metadata) ==
    DrawText(DrawText(DrawText(d,
        1, <<"LOCKOUT/TAGOUT PROCEDURE">>),
        1, <<"Industrial Safety Management System">>),
        1, ToUpperCase(metadata.listName))

addProcedureInfo(d, metadata) ==
    autoTable(d, "info", <<"Field", "Value">>,
              <<<<"JSA Number:", metadata.jsaNumber>>,
                <<"Work Order:", metadata.workOrder>>,
                <<"Job Description:", metadata.jobDescription>>>>,
              3)

\* the step taken from the index as it is, without the + 1
tableData_ZeroBased(points) ==
    [k \in 1..Len(points) |->
        <<toString(k - 1), points[k].kks, points[k].unit,
          points[k].description, points[k].isolationMethod>>]

\* points.map((point, index) => [(index + 1).toString(), point.kks, ...])
tableData(points) ==
    [k \in 1..Len(points) |->
        <<toString(k), points[k].kks, points[k].unit,
          points[k].description, points[k].isolationMethod>>]

addIsolationTable(d, points) ==
    autoTable(DrawText(d, d.numberOfPages, <<"ISOLATION PROCEDURE STEPS">>),
              "steps",
              <<"Step", "KKS Code", "Unit", "Description", "Isolation Method">>,
              tableData(points), FirstPageRows)

\* for (let i = 1; i <= totalPages; i++) the three footer texts of page i
RECURSIVE FooterPages(_, _, _)
FooterPages(d, i, totalPages) ==
    IF i > totalPages
    THEN d
    ELSE FooterPages(
             DrawText(DrawText(DrawText(d,
                 i, <<"Industrial Isolation Management System">>),
                 i, <<"Page ">> \o toString(i) \o <<" of ">>
                       \o toString(totalPages)),
                 i, <<"Generated: ", "now">>),
             i + 1, totalPages)

\* the footer of the first page only, as if the document had one page
addFooter_FirstPage(d) == FooterPages(d, 1, 1)

\* const totalPages = this.doc.getNumberOfPages(), then the loop
addFooter(d) == FooterPages(d, 1, d.numberOfPages)

generateLOTOProcedure(d, data) ==
    addFooter(addIsolationTable(addProcedureInfo(addHeader(d, data.metadata),
                                                 data.metadata),
                                data.points))

\* generator.save(filename)
save(d, filename) == [d EXCEPT !.filename = filename]

\* generateLOTOPDF(data): a new generator draws the document and saves it
generateLOTOPDF(data) ==
    save(generateLOTOProcedure(NewDoc, data),
         <<"LOTO-Procedure-">>
            \o ReplaceNonAlphaNumeric(data.metadata.listName)
            \o <<"-", "today", ".pdf">>)

\* a list entry: the catalog record with the method the entry carries
Entry(i, method) == [SamplePoint(i) EXCEPT !.isolationMethod = method]

\* the lists of entries of distinct points, any order, any method
EntryLists ==
    LET entries == {Entry(i, m) : i \in PointIds, m \in MethodSet}
    IN  {list \in UNION {[1..n -> entries] : n \in 0..NumPoints} :
            \A i, j \in 1..Len(list) : i # j => list[i].id # list[j].id}

PdfListNames == {<<"a">>, <<"a", " ", "b">>}

PdfTexts == {"", "JSA-7"}

\* the requests of the Export PDF button and of other clients of the route:
\* jobDescription may be left out
PdfRequests ==
    {[isolationPointsList |-> list, listName |-> name, jsaNumber |-> jsa,
      workOrder |-> wo] @@ job :
        list \in EntryLists, name \in PdfListNames,
        jsa \in PdfTexts, wo \in PdfTexts,
        job \in {<<>>, [jobDescription |-> "Isolate"]}}

\* the value of the request as it is, the empty text when it is missing
NotSpecifiedOr_Raw(request, key) ==
    IF key \in DOMAIN request THEN request[key] ELSE ""

\* the value of a metadata field of the request, or the placeholder when
\* the field is missing or empty
NotSpecifiedOr(request, key) ==
    IF key \in DOMAIN request /\ request[key] # ""
    THEN request[key]
    ELSE "Not Specified"

\* POST /api/export/isolation-list-pdf: the data the generator is handed
ExportIsolationListPdf(request) ==
    [points |-> request.isolationPointsList,
     metadata |-> [listName |-> request.listName,
                   jsaNumber |-> NotSpecifiedOr(request, "jsaNumber"),
                   workOrder |-> NotSpecifiedOr(request, "workOrder"),
                   jobDescription |-> NotSpecifiedOr(request, "jobDescription"),
                   totalPoints |-> Len(request.isolationPointsList)]]

\* pdfExportMutation: the request is posted and the answer is handed to
\* generateLOTOPDF.  Every export draws a new document and reads nothing of
\* an earlier one: the first export of the page is followed.
pdfExportMutation ==
    /\ doc = NoDoc
    /\ \E request \in PdfRequests :
          LET data == ExportIsolationListPdf(request)
          IN  /\ pdfExportData' = data
              /\ doc' = generateLOTOPDF(data)
              /\ lastOp' = [Ran("exportPdf") EXCEPT !.arg = request]
              /\ toast' = [title |-> "PDF Generated", n |-> 0]
    /\ UNCHANGED <<serverVars, currentList, selectedPoints, draggedIndex,
                   listName, exportResponse>>
    /\ UNCHANGED <<csvText, filters, searchResult, globalSearch>>
    /\ UNCHANGED tableVars

\* no export of a PDF asked for yet
InitPdf ==
    /\ isolationPointsMap = [i \in 1..NumPoints |-> SamplePoint(i)]
    /\ currentIsolationPointId = NumPoints + 1
    /\ InitSavedLists
    /\ InitPage
    /\ InitRender

-----------------------------------------------------------------------------
(* Search: searchIsolationPoints of the two storages and the page's        *)
(* displayPoints.  The text columns of the records searched are sequences  *)
(* of characters, NullText for a null column.  A FilterOptions value is a  *)
(* record of the properties the request set.                               *)

\* filters.search, filters.units, ...: undefined when the property is absent
Has(f, key) == key \in DOMAIN f

\* text.includes(term)
IncludesText(text, term) ==
    \E k \in 0..(Len(text) - Len(term)) :
        SubSeq(text, k + 1, k + Len(term)) = term

\* if (filters.search): a non-empty string
Searching(f) == Has(f, "search") /\ Len(f.search) > 0

\* the operands of the || chain of MemStorage, in order of evaluation; the
\* last three are guarded by `point.x &&`
SearchChain(point) ==
    <<[value |-> point.kks, guarded |-> FALSE],
      [value |-> point.description, guarded |-> FALSE],
      [value |-> point.unit, guarded |-> FALSE],
      [value |-> point.type, guarded |-> FALSE],
      [value |-> point.isolationMethod, guarded |-> FALSE],
      [value |-> point.panelKks, guarded |-> TRUE],
      [value |-> point.loadKks, guarded |-> TRUE],
      [value |-> point.specialInstructions, guarded |-> TRUE]>>

\* the || chain from operand k on: "match" at the first operand that
\* includes the term, "throw" at an unguarded null (toLowerCase of null),
\* "nomatch" when the operands are used up
RECURSIVE EvalChain(_, _, _)
EvalChain(chain, k, searchLower) ==
    IF k > Len(chain) THEN "nomatch"
    ELSE IF chain[k].value = NullText
    THEN IF chain[k].guarded
         THEN EvalChain(chain, k + 1, searchLower)
         ELSE "throw"
    ELSE IF IncludesText(ToLowerCase(chain[k].value), searchLower)
    THEN "match"
    ELSE EvalChain(chain, k + 1, searchLower)

\* the length test left out: an empty array constrains too
Constrains_EmptyToo(f, key) == Has(f, key)

\* filters.units && filters.units.length > 0
Constrains(f, key) == Has(f, key) /\ Len(f[key]) > 0

\* the matching points collected from the last to the first
DimensionFilter_Reversed(points, values, column) ==
    LET kept == SelectSeq(points, LAMBDA point : Includes(values, point[column]))
    IN  [i \in 1..Len(kept) |-> kept[Len(kept) + 1 - i]]

\* points.filter(point => filters.units!.includes(point.unit))
DimensionFilter(points, values, column) ==
    SelectSeq(points, LAMBDA point : Includes(values, point[column]))

\* the filter of one dimension, when the request constrains it
ByDimension(points, f, key, column) ==
    IF Constrains(f, key)
    THEN DimensionFilter(points, f[key], column)
    ELSE points

\* MemStorage.searchIsolationPoints
MemSearchIsolationPoints(f) ==
    LET all == getAllIsolationPoints
        searchLower == ToLowerCase(f.search)
        outcome(point) == EvalChain(SearchChain(point), 1, searchLower)
    IN  IF Searching(f) /\ \E i \in 1..Len(all) : outcome(all[i]) = "throw"
        THEN [error |-> "TypeError", points |-> <<>>]
        ELSE LET searched ==
                     IF Searching(f)
                     THEN SelectSeq(all, LAMBDA point : outcome(point) = "match")
                     ELSE all
             IN  [error |-> "",
                  points |->
                      ByDimension(
                          ByDimension(
                              ByDimension(
                                  ByDimension(searched, f, "units", "unit"),
                                  f, "types", "type"),
                              f, "methods", "isolationMethod"),
                          f, "positions", "normalPosition")]

\* text LIKE pattern: % stands for any run of characters, _ for any one
RECURSIVE Like(_, _)
Like(text, pattern) ==
    IF Len(pattern) = 0 THEN Len(text) = 0
    ELSE IF Head(pattern) = "%"
    THEN \/ Like(text, Tail(pattern))
         \/ Len(text) > 0 /\ Like(Tail(text), pattern)
    ELSE /\ Len(text) > 0
         /\ Head(pattern) = "_" \/ Head(pattern) = Head(text)
         /\ Like(Tail(text), Tail(pattern))

\* LOWER(COALESCE(column, ''))
LowerCoalesce(value) == IF value = NullText THEN <<>> ELSE ToLowerCase(value)

SearchedColumns ==
    <<"kks", "description", "unit", "type", "isolationMethod", "panelKks",
      "loadKks", "normalPosition", "isolationPosition", "specialInstructions">>

\* inArray(column, values): NULL IN (...) is not true
InArray(value, values) == value # NullText /\ Includes(values, value)

\* and(...conditions) of DatabaseStorage.searchIsolationPoints for one row
DbConditions(row, f) ==
    /\ Searching(f) =>
          \E c \in 1..Len(SearchedColumns) :
              Like(LowerCoalesce(row[SearchedColumns[c]]),
                   <<"%">> \o ToLowerCase(f.search) \o <<"%">>)
    /\ Constrains(f, "units") => InArray(row.unit, f.units)
    /\ Constrains(f, "types") => InArray(row.type, f.types)
    /\ Constrains(f, "methods") => InArray(row.isolationMethod, f.methods)
    /\ Constrains(f, "positions") => InArray(row.normalPosition, f.positions)

\* DatabaseStorage.searchIsolationPoints: the rows selected, in no order
DbSearchIsolationPoints(f) ==
    {getAllIsolationPoints[i] : i \in
        {j \in 1..Len(getAllIsolationPoints) :
            DbConditions(getAllIsolationPoints[j], f)}}

\* GET /api/isolation-points/search answered by either storage
searchIsolationPoints ==
    /\ searchResult' =
          [called |-> TRUE,
           error |-> MemSearchIsolationPoints(filters).error,
           points |-> MemSearchIsolationPoints(filters).points,
           rows |-> DbSearchIsolationPoints(filters)]
    /\ UNCHANGED <<serverVars, pageVars>>
    /\ UNCHANGED <<csvText, pdfExportData, doc, filters, globalSearch>>
    /\ UNCHANGED tableVars

\* (value?.toLowerCase() || '').includes(searchTerm)
IncludesLower(value, searchTerm) ==
    IncludesText(IF value = NullText THEN <<>> ELSE ToLowerCase(value),
                 searchTerm)

\* the page's displayPoints for the search input
displayPoints ==
    IF Len(globalSearch) > 0
    THEN LET searchTerm == ToLowerCase(globalSearch)
         IN  SelectSeq(allIsolationPoints, LAMBDA point :
                 \E c \in 1..Len(SearchedColumns) :
                     IncludesLower(point[SearchedColumns[c]], searchTerm))
    ELSE allIsolationPoints

SearchTerms == {<<>>, <<"e">>, <<"U", "1">>}

\* setGlobalSearch(e.target.value)
setGlobalSearch ==
    /\ \E value \in SearchTerms : globalSearch' = value
    /\ UNCHANGED <<serverVars, pageVars>>
    /\ UNCHANGED <<csvText, pdfExportData, doc, filters, searchResult>>
    /\ UNCHANGED tableVars

\* the values of the dimensions
Units == <<<<"U", "1">>, <<"U", "2">>>>

Types == <<<<"E", "l">>, <<"M", "e">>>>

Methods == <<<<"C", "B">>, <<"M", "V">>>>

Positions == <<<<"O", "p">>, <<"C", "l">>>>

\* stored record i as the search sees it: the dimensions vary with i, the
\* optional columns are null for the even ids
SearchPoint(i) ==
    [id |-> i,
     kks |-> <<"K">> \o toString(i),
     unit |-> Units[(((i - 1) \div 2) % 2) + 1],
     description |-> <<"d", "e", "s">>,
     type |-> Types[((i - 1) % 2) + 1],
     panelKks |-> IF i % 2 = 0 THEN NullText ELSE <<"P">> \o toString(i),
     loadKks |-> IF i % 2 = 0 THEN NullText ELSE <<>>,
     isolationMethod |-> Methods[((i \div 2) % 2) + 1],
     normalPosition |-> Positions[((i \div 3) % 2) + 1],
     isolationPosition |-> IF i % 2 = 0 THEN NullText ELSE <<"O">>,
     specialInstructions |-> IF i % 2 = 0 THEN NullText ELSE <<"U", "s", "e">>]

\* the stores that hold some of the records, in the order of their ids
SearchCatalogs ==
    {SelectSeq([i \in 1..NumPoints |-> SearchPoint(i)],
               LAMBDA point : point.id \in ids) : ids \in SUBSET PointIds}

\* the arrays a request gives for a dimension
ValueLists(values) ==
    {<<>>, <<values[1]>>, <<values[2]>>, <<values[1], values[2]>>}

FilterKeys == {"search", "units", "types", "methods", "positions"}

\* the FilterOptions of the requests: any of the properties set or absent
FilterOptions ==
    {[key \in keys |->
        CASE key = "search" -> search
          [] key = "units" -> units
          [] key = "types" -> types
          [] key = "methods" -> methods
          [] key = "positions" -> positions] :
        keys \in SUBSET FilterKeys,
        search \in {<<>>, <<"E">>},
        units \in ValueLists(Units),
        types \in ValueLists(Types),
        methods \in {<<>>, <<Methods[1]>>},
        positions \in {<<>>, <<Positions[2]>>}}

\* a store and the request it is searched with
InitSearch ==
    /\ isolationPointsMap \in SearchCatalogs
    /\ filters \in FilterOptions
    /\ currentIsolationPointId = NumPoints + 1
    /\ InitSavedLists
    /\ InitPage
    /\ csvText = <<>>
    /\ pdfExportData = NoData
    /\ doc = NoDoc
    /\ searchResult = NoResult
    /\ globalSearch = <<>>
    /\ InitTable

\* the columns of a stored record that may be null: all but id
NullableColumns == {SearchedColumns[c] : c \in 1..Len(SearchedColumns)}

\* a stored record of which one column (or none) holds the text "Hit", the
\* columns of nulls are null and every other column holds "z"
TermPoint(i, hit, nulls) ==
    [column \in {"id"} \cup NullableColumns |->
        IF column = "id" THEN i
        ELSE IF column = hit THEN <<"H", "i", "t">>
        ELSE IF column \in nulls THEN NullText
        ELSE <<"z">>]

\* the sets of null columns drawn: none, one required column, the columns
\* MemStorage guards, and every column
NullColumnSets ==
    {{}, {"kks"}, {"description"}, {"unit", "type", "isolationMethod"},
     {"panelKks", "loadKks", "specialInstructions"},
     {"normalPosition", "isolationPosition"}, NullableColumns}

\* a store of such a record followed by a record with no null column
TermCatalogs ==
    {<<TermPoint(1, hit, nulls), TermPoint(2, "none", {})>> :
        hit \in NullableColumns \cup {"none"}, nulls \in NullColumnSets}

\* the search terms of the requests
Terms == {<<"h", "i">>, <<"I", "T">>, <<"z">>, <<"_">>, <<"%">>}

\* a store with null columns and a request that carries a search term only
InitTerm ==
    /\ isolationPointsMap \in TermCatalogs
    /\ filters \in {[search |-> term] : term \in Terms}
    /\ globalSearch \in Terms
    /\ currentIsolationPointId = NumPoints + 1
    /\ InitSavedLists
    /\ InitPage
    /\ csvText = <<>>
    /\ pdfExportData = NoData
    /\ doc = NoDoc
    /\ searchResult = NoResult
    /\ InitTable

-----------------------------------------------------------------------------
(* IsolationTable: the pages of the table.  The points prop is the sequence *)
(* of the rows it is given, a row being its number.                         *)

itemsPerPage == 50

Min(a, b) == IF a < b THEN a ELSE b

Max(a, b) == IF a > b THEN a ELSE b

\* Math.ceil(sortedPoints.length / itemsPerPage)
totalPages == (Len(tablePoints) + itemsPerPage - 1) \div itemsPerPage

startIndex == (currentPage - 1) * itemsPerPage

endIndex == startIndex + itemsPerPage

\* Array.prototype.slice(start, end): a negative index counts from the end
SliceIndex(list, k) ==
    IF k < 0 THEN Max(Len(list) + k, 0) ELSE Min(k, Len(list))

Slice(list, start, end) ==
    SubSeq(list, SliceIndex(list, start) + 1, SliceIndex(list, end))

\* sortedPoints.slice(startIndex, endIndex)
currentPoints == Slice(tablePoints, startIndex, endIndex)

\* the numbers of points the page hands to the table: none, one page, more
\* than one page, more than five pages
PointCounts ==
    {0, 1, itemsPerPage, itemsPerPage + 1, 2 * itemsPerPage,
     2 * itemsPerPage + 1, 5 * itemsPerPage + 1}

\* the page renders the table with other points: a search or a reload
setTablePoints ==
    /\ \E n \in PointCounts :
          /\ tablePoints' = [row \in 1..n |-> row]
          /\ lastOp' = [Ran("setPoints") EXCEPT !.index = n]
    /\ UNCHANGED <<serverVars, currentList, selectedPoints, draggedIndex,
                   listName, toast, exportResponse>>
    /\ UNCHANGED <<csvText, pdfExportData, doc, filters, searchResult,
                   globalSearch, currentPage>>

\* the Previous button, disabled on page 1
PreviousPage ==
    /\ currentPage # 1
    /\ currentPage' = Max(1, currentPage - 1)
    /\ lastOp' = Ran("previousPage")
    /\ UNCHANGED <<serverVars, currentList, selectedPoints, draggedIndex,
                   listName, toast, exportResponse>>
    /\ UNCHANGED <<csvText, pdfExportData, doc, filters, searchResult,
                   globalSearch, tablePoints>>

\* the Next button, disabled when currentPage === totalPages
NextPage ==
    /\ currentPage # totalPages
    /\ currentPage' = Min(totalPages, currentPage + 1)
    /\ lastOp' = Ran("nextPage")
    /\ UNCHANGED <<serverVars, currentList, selectedPoints, draggedIndex,
                   listName, toast, exportResponse>>
    /\ UNCHANGED <<csvText, pdfExportData, doc, filters, searchResult,
                   globalSearch, tablePoints>>

\* one of the buttons of the first five pages
PageButton ==
    /\ \E page \in 1..Min(5, totalPages) :
          /\ currentPage' = page
          /\ lastOp' = [Ran("pageButton") EXCEPT !.index = page]
    /\ UNCHANGED <<serverVars, currentList, selectedPoints, draggedIndex,
                   listName, toast, exportResponse>>
    /\ UNCHANGED <<csvText, pdfExportData, doc, filters, searchResult,
                   globalSearch, tablePoints>>

\* the button of the last page, shown when there are more than five pages
LastPageButton ==
    /\ totalPages > 5
    /\ currentPage' = totalPages
    /\ lastOp' = [Ran("lastPage") EXCEPT !.index = totalPages]
    /\ UNCHANGED <<serverVars, currentList, selectedPoints, draggedIndex,
                   listName, toast, exportResponse>>
    /\ UNCHANGED <<csvText, pdfExportData, doc, filters, searchResult,
                   globalSearch, tablePoints>>

-----------------------------------------------------------------------------
(* Specifications *)

\* the procedure list: every operation that sets currentList
Next ==
    \/ AddPointToList
    \/ handleSelectPoint
    \/ handleAddSelectedToList
    \/ RemoveFromList
    \/ handleUpdateIsolationMethod
    \/ handleDragStart
    \/ handleDragEnd
    \/ handleDragOver
    \/ moveItem
    \/ clearList
    \/ LoadSavedList

Spec == Init /\ [][Next]_vars

\* the operations of the list builder on a list filled point by point
NextOps ==
    \/ AddPointToList
    \/ RemoveFromList
    \/ handleUpdateIsolationMethod
    \/ handleDragStart
    \/ handleDragEnd
    \/ handleDragOver
    \/ moveItem
    \/ clearList

SpecOps == Init /\ [][NextOps]_vars

\* adding the points selected in the table
NextBatch ==
    \/ handleSelectPoint
    \/ handleAddSelectedToList
    \/ AddPointToList
    \/ RemoveFromList
    \/ handleUpdateIsolationMethod

SpecBatch == Init /\ [][NextBatch]_vars

\* saving and loading lists while the catalog changes
NextPersist ==
    \/ AddPointToList
    \/ moveItem
    \/ setListName
    \/ handleSaveList
    \/ LoadSavedList
    \/ deleteIsolationPoint

SpecPersist == Init /\ [][NextPersist]_vars

\* saving a list whose methods were overridden, and loading it
NextSaveLoad ==
    \/ AddPointToList
    \/ handleUpdateIsolationMethod
    \/ setListName
    \/ handleSaveList
    \/ LoadSavedList

SpecSaveLoad == Init /\ [][NextSaveLoad]_vars

\* creating saved lists from the list builder and through the endpoint
NextSave ==
    \/ AddPointToList
    \/ setListName
    \/ handleSaveList
    \/ PostSavedLists

SpecSave == Init /\ [][NextSave]_vars

\* the store: updating and deleting catalog records and saved lists
NextStore ==
    \/ updateIsolationPoint
    \/ deleteIsolationPoint
    \/ updateSavedList
    \/ deleteSavedList

SpecStore == Init /\ [][NextStore]_vars

\* the ids of the store: creating and deleting catalog records and saved
\* lists
NextIds ==
    \/ createIsolationPoint
    \/ deleteIsolationPoint
    \/ createNamedSavedList
    \/ deleteSavedList

SpecIds == Init /\ [][NextIds]_vars

\* paging through the table while the points it is given change
NextTable ==
    \/ setTablePoints
    \/ PreviousPage
    \/ NextPage
    \/ PageButton
    \/ LastPageButton

SpecTable == Init /\ [][NextTable]_vars

\* exporting the list
NextExport ==
    \/ AddPointToList
    \/ moveItem
    \/ handleUpdateIsolationMethod
    \/ handleExportLists
    \/ PostExportIsolationList

SpecExport == Init /\ [][NextExport]_vars

\* the text of the export of records with free-text descriptions
NextCsv ==
    \/ ExportCsvText

SpecCsv == InitCsv /\ [][NextCsv]_vars

\* generating the PDF of the data handed to the generator
NextPdf ==
    \/ pdfExportMutation

SpecPdf == InitPdf /\ [][NextPdf]_vars

\* searching the store
NextSearch ==
    \/ searchIsolationPoints
    \/ setGlobalSearch

SpecSearch == InitSearch /\ [][NextSearch]_vars

\* searching a store whose records have null columns for a term
NextTerm ==
    \/ searchIsolationPoints
    \/ setGlobalSearch

SpecTerm == InitTerm /\ [][NextTerm]_vars

-----------------------------------------------------------------------------
(* Properties of the procedure list *)

\* the number of positions of list that hold e
Count(list, e) == Cardinality({i \in 1..Len(list) : list[i] = e})

IsPermutationOf(a, b) ==
    /\ Len(a) = Len(b)
    /\ \A i \in 1..Len(a) : Count(a, a[i]) = Count(b, a[i])

HasId(list, id) == \E i \in 1..Len(list) : list[i] # Undefined /\ list[i].id = id

\* C1: whatever list operations ran (add of one point or of a batch, remove,
\* move, drag, override, clear, load), no two entries of the current list
\* carry the same point id.
C1_NoDuplicateIds ==
    \A i, j \in 1..Len(currentList) :
        (i # j /\ currentList[i] # Undefined /\ currentList[j] # Undefined)
            => currentList[i].id # currentList[j].id

\* a batch of several selected points was added to a list that already held
\* some of them, and the list now holds every catalog point
C1_Witness ==
    /\ lastOp.op = "add"
    /\ Len(lastOp.arg) >= 2
    /\ toast.n < Len(lastOp.arg)
    /\ Len(currentList) = NumPoints

\* C3: once Clear List has run, the current list has no entry.
C3_ClearEmpties ==
    lastOp.op = "clear" => Len(currentList) = 0

\* C6: add(points) keeps the existing entries where they are, appends
\* exactly the given points whose id the list did not hold, in the order
\* given, and reports the number appended; a batch of present points changes
\* nothing.
AddPost(L, L2, points, reported) ==
    LET appended == SubSeq(L2, Len(L) + 1, Len(L2))
    IN  /\ Len(L2) >= Len(L)
        /\ SubSeq(L2, 1, Len(L)) = L
        /\ \A i \in 1..Len(appended) :
              /\ ~HasId(L, appended[i].id)
              /\ \E k \in 1..Len(points) : points[k] = appended[i]
        /\ \A k \in 1..Len(points) :
              ~HasId(L, points[k].id) => Count(appended, points[k]) = 1
        /\ \A i, j \in 1..Len(appended) :
              i < j => \E k, m \in 1..Len(points) :
                          k < m /\ points[k] = appended[i]
                                /\ points[m] = appended[j]
        /\ reported = Len(appended)
        /\ (\A k \in 1..Len(points) : HasId(L, points[k].id)) => L2 = L

C6_AddAppendsNew ==
    [][lastOp'.op = "add" =>
          AddPost(currentList, currentList', lastOp'.arg, toast'.n)]_vars

\* a batch holding both a present and an absent point was added to a list
\* of at least one entry
C6_Witness ==
    /\ lastOp.op = "add"
    /\ lastOp.n >= 1
    /\ Len(lastOp.arg) >= 2
    /\ toast.title = "Added to List"
    /\ toast.n >= 1
    /\ toast.n < Len(lastOp.arg)
    /\ Len(currentList) = lastOp.n + toast.n

\* C7: remove(pointId) deletes exactly the entry with that id, every other
\* entry keeping its relative position and its method; with no such entry
\* the list is unchanged.
RemovePost(L, L2, pointId) ==
    IF HasId(L, pointId)
    THEN \E i \in 1..Len(L) :
            /\ L[i].id = pointId
            /\ L2 = SubSeq(L, 1, i - 1) \o SubSeq(L, i + 1, Len(L))
    ELSE L2 = L

C7_RemoveExactlyOne ==
    [][lastOp'.op = "remove" =>
          RemovePost(currentList, currentList', lastOp'.pointId)]_vars

\* an entry was removed from a list of three or more, two or more remain
C7_Witness ==
    /\ lastOp.op = "remove"
    /\ lastOp.n = Len(currentList) + 1
    /\ Len(currentList) >= 2
    /\ ~HasId(currentList, lastOp.pointId)

\* C8: a reorder whose new order is not a permutation of the current
\* entries is refused and leaves the list as it was, so every reorder
\* leaves a permutation of the list it found.
C8_ReorderKeepsEntries ==
    [][lastOp'.op \in {"dragOver", "move"} =>
          IsPermutationOf(currentList', currentList)]_vars

\* C9: moveAdjacent exchanges the entry with its neighbour in the given
\* direction, every other entry staying at its index; at the boundary the
\* list is unchanged; ids and methods are those of before.
MovePost(L, L2, fromIndex, direction) ==
    LET toIndex == IF direction = "up" THEN fromIndex - 1 ELSE fromIndex + 1
    IN  IF toIndex < 0 \/ toIndex > Len(L) - 1
        THEN L2 = L
        ELSE /\ Len(L2) = Len(L)
             /\ L2[toIndex + 1] = L[fromIndex + 1]
             /\ L2[fromIndex + 1] = L[toIndex + 1]
             /\ \A k \in 1..Len(L) :
                   k \notin {fromIndex + 1, toIndex + 1} => L2[k] = L[k]

C9_MoveSwapsNeighbours ==
    [][lastOp'.op = "move" =>
          MovePost(currentList, currentList', lastOp'.index, lastOp'.arg)]_vars

\* an entry of a list of three or more changed place with its neighbour
C9_Witness ==
    /\ lastOp.op = "move"
    /\ lastOp.n >= 3
    /\ Len(currentList) = lastOp.n
    /\ \/ lastOp.arg = "up" /\ lastOp.index >= 1
       \/ lastOp.arg = "down" /\ lastOp.index <= lastOp.n - 2

\* C10: overrideMethod(pointId, newMethod) sets the method of the entry with
\* that id and nothing else: the catalog, the order, the ids and the other
\* entries are as before.
OverridePost(L, L2, pointId, newMethod) ==
    /\ Len(L2) = Len(L)
    /\ \A k \in 1..Len(L) :
          IF L[k].id = pointId
          THEN /\ L2[k].id = L[k].id
               /\ L2[k].kks = L[k].kks
               /\ L2[k].unit = L[k].unit
               /\ L2[k].description = L[k].description
               /\ L2[k].isolationMethod = newMethod
          ELSE L2[k] = L[k]

C10_OverrideOnlyMethod ==
    [][lastOp'.op = "override" =>
          /\ OverridePost(currentList, currentList', lastOp'.pointId,
                          lastOp'.arg)
          /\ isolationPointsMap' = isolationPointsMap]_vars

\* an entry of a list of two or more carries a method that differs from its
\* catalog record after an override
C10_Witness ==
    /\ lastOp.op = "override"
    /\ Len(currentList) >= 2
    /\ \E i \in 1..Len(currentList), k \in 1..Len(isolationPointsMap) :
          /\ currentList[i].id = lastOp.pointId
          /\ isolationPointsMap[k].id = lastOp.pointId
          /\ currentList[i].isolationMethod = lastOp.arg
          /\ isolationPointsMap[k].isolationMethod # lastOp.arg

-----------------------------------------------------------------------------
(* Properties of persistence and export *)

\* C2: loading a list that was saved from the current list, while all its
\* points are in the catalog, gives back the saved ids in the saved order.
C2_LoadRestoresOrder ==
    (/\ lastOp.op = "load"
     /\ lastOp.pointId > Len(SampleLists)
     /\ \A i \in 1..Len(lastOp.arg) : HasId(isolationPointsMap, lastOp.arg[i]))
        => MapIds(currentList) = lastOp.arg

\* C4: the CSV answer to an export has one data row per entry, in list
\* order, row i carrying step number i.
C4_RowPerEntryInOrder ==
    (lastOp.op = "export" /\ Len(currentList) > 0)
        => /\ exportResponse.status = 200
           /\ Len(exportResponse.rows) = Len(currentList)
           /\ \A i \in 1..Len(currentList) :
                 /\ "Step" \in DOMAIN exportResponse.rows[i]
                 /\ exportResponse.rows[i].Step = i
                 /\ exportResponse.rows[i].KKS = currentList[i].kks

\* C5: an export that follows an override renders, for the overridden
\* point, the method of the list entry and not the catalog one.
C5_ExportRendersOverride ==
    lastOp.op = "export" =>
        \A i \in 1..Len(currentList), k \in 1..Len(isolationPointsMap) :
            (/\ isolationPointsMap[k].id = currentList[i].id
             /\ isolationPointsMap[k].isolationMethod
                   # currentList[i].isolationMethod)
                => \E r \in 1..Len(exportResponse.rows) :
                      /\ exportResponse.rows[r].KKS = currentList[i].kks
                      /\ exportResponse.rows[r].Method
                            = currentList[i].isolationMethod

-----------------------------------------------------------------------------
(* Properties of failure reporting and of the saved-list round trip *)

\* C11: an override that names a point id with no entry in the list is
\* reported as a failure, not as a successful update, and leaves the list
\* unchanged.
C11_AbsentOverrideFails ==
    [][(lastOp'.op = "override" /\ ~HasId(currentList, lastOp'.pointId))
          => /\ currentList' = currentList
             /\ toast'.title # "Method Updated"]_vars

\* C12: a saved list records the method of every entry: loading the list
\* that was just saved from the current list gives every entry the method
\* it had when the list was saved, overrides included.
C12_SaveKeepsOverrides ==
    [][(/\ lastOp.op = "save"
        /\ toast.title = "List Saved"
        /\ lastOp'.op = "load"
        /\ lastOp'.pointId = currentSavedListId - 1)
          => \A i \in 1..Len(currentList) :
                \E j \in 1..Len(currentList') :
                    /\ currentList'[j].id = currentList[i].id
                    /\ currentList'[j].isolationMethod
                          = currentList[i].isolationMethod]_vars

\* the stored ids that no catalog record carries
DroppedIds(isolationPointIds) ==
    {i \in 1..Len(isolationPointIds) :
        ~HasId(isolationPointsMap, isolationPointIds[i])}

\* C13: loading a saved list of which some stored ids are no longer in the
\* catalog gives exactly the entries of the ids still present, raises no
\* error, and the number it reports is the number of dropped ids.
C13_LoadReportsDropped ==
    (lastOp.op = "load" /\ DroppedIds(lastOp.arg) # {})
        => /\ \A i \in 1..Len(lastOp.arg) :
                 HasId(isolationPointsMap, lastOp.arg[i])
                    <=> HasId(currentList, lastOp.arg[i])
           /\ \A j \in 1..Len(currentList) :
                 Includes(lastOp.arg, currentList[j].id)
           /\ toast.title = "List Loaded"
           /\ toast.n = Cardinality(DroppedIds(lastOp.arg))

-----------------------------------------------------------------------------
(* Properties of the export boundary *)

\* C14: every export request the page issues for a list of at least one
\* entry is accepted by the export endpoint and answered with a text/csv
\* attachment, never with an error status.
C14_ClientExportAccepted ==
    (lastOp.op = "export" /\ Len(currentList) >= 1)
        => /\ exportResponse.status = 200
           /\ exportResponse.contentType = "text/csv"
           /\ exportResponse.disposition = "attachment"

\* every double quote of the value doubled
RECURSIVE DoubleQuotes(_)
DoubleQuotes(v) ==
    IF Len(v) = 0 THEN <<>>
    ELSE (IF Head(v) = DQ THEN <<DQ, DQ>> ELSE <<Head(v)>>)
            \o DoubleQuotes(Tail(v))

QuotedField(v) == <<DQ>> \o DoubleQuotes(v) \o <<DQ>>

QuotedLine(p) ==
    Join(<<QuotedField(p.kks), QuotedField(p.unit),
           QuotedField(p.description), QuotedField(p.type),
           QuotedField(OrEmpty(p.panelKks)), QuotedField(OrEmpty(p.loadKks)),
           QuotedField(p.isolationMethod), QuotedField(p.normalPosition),
           QuotedField(OrEmpty(p.isolationPosition)),
           QuotedField(OrEmpty(p.specialInstructions))>>, Comma)

\* position k of the text is inside quotes: an odd number of double quotes
\* comes before it (a doubled quote inside a quoted field closes and
\* reopens it)
InQuotes(text, k) ==
    Cardinality({j \in 1..(k - 1) : text[j] = DQ}) % 2 = 1

\* the commas and the newlines outside quotes: the separators of fields and
\* of rows
FieldSeparators(text) ==
    {k \in 1..Len(text) : text[k] = Comma /\ ~InQuotes(text, k)}

RowSeparators(text) ==
    {k \in 1..Len(text) : text[k] = NL /\ ~InQuotes(text, k)}

\* the row of position k, counted from 0
RowOf(text, k) == Cardinality({b \in RowSeparators(text) : b < k})

\* the rows that hold a token
Rows(text) == {RowOf(text, k) : k \in (1..Len(text)) \ RowSeparators(text)}

SeparatorsOfRow(text, row) ==
    Cardinality({k \in FieldSeparators(text) : RowOf(text, k) = row})

\* C15: every field of a CSV data row is the value between double quotes
\* with every double quote of the value doubled, commas and newlines of the
\* value kept as they are, and every row of the text has the same number of
\* separators outside quotes.
C15_QuotesDoubled ==
    lastOp.op = "exportText" =>
        LET selected == SelectedPoints(isolationPointsMap,
                                       lastOp.arg.isolationPointIds)
        IN  /\ csvText = csvHeaderText
                  \o Join([i \in 1..Len(selected) |-> QuotedLine(selected[i])],
                          NL)
            /\ \A r1, r2 \in Rows(csvText) :
                  SeparatorsOfRow(csvText, r1) = SeparatorsOfRow(csvText, r2)

\* C18: the export of an empty list is not refused: it is answered with a
\* CSV of the header lines and no data row.
C18_EmptyCsvExported ==
    (lastOp.op = "export" /\ Len(currentList) = 0)
        => /\ toast.title = "Export Successful"
           /\ exportResponse.status = 200
           /\ exportResponse.contentType = "text/csv"
           /\ Len(exportResponse.header) > 0
           /\ Len(exportResponse.rows) = 0

\* the metadata fields a request carries, in the order of the header block
PresentFields(body) ==
    SelectSeq(MetadataKeys, LAMBDA key : Has(body, key))

\* the tokens of line k of a text (counted from 1) that has no quoted newline
LineOf(text, k) ==
    SelectSeq([j \in 1..Len(text) |-> j],
              LAMBDA j : text[j] # NL /\ RowOf(text, j) = k - 1)

EndsWith(line, tail) ==
    /\ Len(line) >= Len(tail)
    /\ SubSeq(line, Len(line) - Len(tail) + 1, Len(line)) = tail

StepHeaderLine ==
    <<"Step", Comma, "KKS Code", Comma, "Unit", Comma, "Description", Comma,
      "Type", Comma, "Isolation Method">>

TextOfLine(text, k) == [j \in 1..Len(LineOf(text, k)) |-> text[LineOf(text, k)[j]]]

\* C23: when the request carries at least one of name, jsaNumber, workOrder
\* and jobDescription, the CSV starts with a title line, a separator line,
\* a label line ending in the value for each field carried, in that order,
\* an export-date line, a total-points line ending in the number of points
\* exported and a blank line, and then comes the column header line
\* Step,KKS Code,Unit,Description,Type,Isolation Method.
C23_HeaderBlock ==
    (lastOp.op = "exportText" /\ Len(PresentFields(lastOp.arg)) >= 1)
        => LET present == PresentFields(lastOp.arg)
               fields == Len(present)
               selected == SelectedPoints(isolationPointsMap,
                                          lastOp.arg.isolationPointIds)
           IN  /\ \A j \in 1..fields :
                     EndsWith(TextOfLine(csvText, 2 + j),
                              <<Comma, lastOp.arg[present[j]]>>)
               /\ EndsWith(TextOfLine(csvText, fields + 4),
                           toString(Len(selected)))
               /\ TextOfLine(csvText, fields + 5) = <<>>
               /\ TextOfLine(csvText, fields + 6) = StepHeaderLine

-----------------------------------------------------------------------------
(* Properties of the PDF generator *)

\* the body rows of the steps table, in the order drawn
StepsBody(d) ==
    SelectSeq(d.rows, LAMBDA r : r.table = "steps" /\ r.section = "body")

\* the number a text of decimal digits denotes
RECURSIVE NumberOf(_)
NumberOf(text) ==
    IF Len(text) = 0 THEN 0
    ELSE 10 * NumberOf(SubSeq(text, 1, Len(text) - 1))
            + (CHOOSE k \in 0..9 : Digits[k + 1] = text[Len(text)])

\* C16: the steps table of a generated document has exactly one body row
\* per point handed to the generator, in the order given, row i showing the
\* step number i, the kks, the unit, the description and the isolation
\* method the entry carries.
C16_RowPerPoint ==
    doc # NoDoc =>
        LET body == StepsBody(doc)
            points == pdfExportData.points
        IN  /\ Len(body) = Len(points)
            /\ \A i \in 1..Len(points) :
                  /\ Len(body[i].cells) = 5
                  /\ NumberOf(body[i].cells[1]) = i
                  /\ body[i].cells[2] = points[i].kks
                  /\ body[i].cells[3] = points[i].unit
                  /\ body[i].cells[4] = points[i].description
                  /\ body[i].cells[5] = points[i].isolationMethod

\* a document was generated for every catalog point, not in catalog order,
\* one of them carrying a method that is not the one of its catalog record,
\* and the steps table runs over more than one page
C16_Witness ==
    /\ doc # NoDoc
    /\ Len(pdfExportData.points) = NumPoints
    /\ pdfExportData.points[1].id # 1
    /\ \E i \in 1..Len(pdfExportData.points) :
          pdfExportData.points[i] # SamplePoint(pdfExportData.points[i].id)
    /\ doc.numberOfPages >= 2

\* C17: for zero points the generator emits no page content and saves no
\* document.
C17_EmptyRejected ==
    (pdfExportData # NoData /\ Len(pdfExportData.points) = 0) => doc = NoDoc

\* the body rows of the information table, in the order drawn
InfoBody(d) ==
    SelectSeq(d.rows, LAMBDA r : r.table = "info" /\ r.section = "body")

InfoFields ==
    <<<<"JSA Number:", "jsaNumber">>, <<"Work Order:", "workOrder">>,
      <<"Job Description:", "jobDescription">>>>

StepsRows(d) == SelectSeq(d.rows, LAMBDA r : r.table = "steps")

\* the texts drawn on a page that start with "Page "
PageTexts(d, page) ==
    SelectSeq(d.texts, LAMBDA t : t.page = page /\ t.text[1] = "Page ")

\* C25: the steps table of a generated document starts every page it
\* reaches with its header row, holds at most the capacity of the page in
\* body rows, and shows every entry exactly once, in the order given, over
\* pages that never go back; every page of the document has one footer text
\* "Page X of Y", X being the number of the page and Y the number of pages.
C25_Paginated ==
    doc # NoDoc =>
        LET rows == StepsRows(doc)
            body == StepsBody(doc)
            points == pdfExportData.points
            first == rows[1].page
        IN  /\ rows[1].section = "head"
            /\ \A k \in 2..Len(rows) :
                  /\ rows[k].page \in {rows[k - 1].page, rows[k - 1].page + 1}
                  /\ rows[k].section = "head"
                        <=> rows[k].page = rows[k - 1].page + 1
            /\ \A k \in 1..Len(rows) :
                  rows[k].section = "head"
                      => rows[k].cells = <<"Step", "KKS Code", "Unit",
                                           "Description", "Isolation Method">>
            /\ \A page \in 1..doc.numberOfPages :
                  Cardinality({k \in 1..Len(body) : body[k].page = page})
                      <= IF page = first THEN FirstPageRows ELSE PageRows
            /\ Len(body) = Len(points)
            /\ \A i \in 1..Len(points) :
                  /\ NumberOf(body[i].cells[1]) = i
                  /\ body[i].cells[2] = points[i].kks
            /\ doc.numberOfPages = rows[Len(rows)].page
            /\ \A page \in 1..doc.numberOfPages :
                  /\ Len(PageTexts(doc, page)) = 1
                  /\ PageTexts(doc, page)[1].text
                        = <<"Page ">> \o toString(page) \o <<" of ">>
                             \o toString(doc.numberOfPages)

\* a document whose steps table drew its header row on two pages or more
\* and whose last page has a footer
C25_Witness ==
    /\ doc # NoDoc
    /\ Len(SelectSeq(StepsRows(doc), LAMBDA r : r.section = "head")) >= 2
    /\ Len(StepsBody(doc)) > FirstPageRows
    /\ doc.numberOfPages >= 2
    /\ Len(PageTexts(doc, doc.numberOfPages)) = 1

-----------------------------------------------------------------------------
(* Properties of the search *)

ValueSet(list) == {list[i] : i \in 1..Len(list)}

\* the dimension is absent or empty, or the point's value is one of its values
SatisfiesDimension(point, f, key, column) ==
    (key \in DOMAIN f /\ ValueSet(f[key]) # {})
        => point[column] \in ValueSet(f[key])

SatisfiesAll(point, f) ==
    /\ SatisfiesDimension(point, f, "units", "unit")
    /\ SatisfiesDimension(point, f, "types", "type")
    /\ SatisfiesDimension(point, f, "methods", "isolationMethod")
    /\ SatisfiesDimension(point, f, "positions", "normalPosition")

NoSearchTerm(f) == "search" \notin DOMAIN f \/ f.search = <<>>

\* C19: a search that returns gives only points that satisfy every supplied
\* dimension, a point satisfying a dimension iff its value is a member of
\* the supplied set, an empty or absent set constraining nothing; with no
\* search term it gives every such point of the store.  This holds for the
\* array of the memory storage and for the rows of the database storage.
C19_ExactlySatisfying ==
    (searchResult.called /\ searchResult.error = "")
        => /\ \A i \in 1..Len(searchResult.points) :
                 /\ searchResult.points[i] \in ValueSet(isolationPointsMap)
                 /\ SatisfiesAll(searchResult.points[i], filters)
           /\ \A row \in searchResult.rows :
                 /\ row \in ValueSet(isolationPointsMap)
                 /\ SatisfiesAll(row, filters)
           /\ NoSearchTerm(filters) =>
                 \A k \in 1..Len(isolationPointsMap) :
                    SatisfiesAll(isolationPointsMap[k], filters)
                       => /\ Count(searchResult.points, isolationPointsMap[k]) = 1
                          /\ isolationPointsMap[k] \in searchResult.rows

\* a search by units and types over the whole store returned some points
\* and left out one that is in the units but not in the types, and one that
\* is in the types but not in the units
C19_Witness ==
    /\ searchResult.called
    /\ searchResult.error = ""
    /\ Len(isolationPointsMap) = NumPoints
    /\ Constrains(filters, "units")
    /\ Constrains(filters, "types")
    /\ Len(searchResult.points) >= 1
    /\ \E k \in 1..Len(isolationPointsMap) :
          /\ isolationPointsMap[k].unit \in ValueSet(filters.units)
          /\ isolationPointsMap[k].type \notin ValueSet(filters.types)
          /\ isolationPointsMap[k] \notin ValueSet(searchResult.points)
    /\ \E k \in 1..Len(isolationPointsMap) :
          /\ isolationPointsMap[k].unit \notin ValueSet(filters.units)
          /\ isolationPointsMap[k].type \in ValueSet(filters.types)
          /\ isolationPointsMap[k] \notin searchResult.rows

\* sub holds some of the entries of list, in the order of list, the entries
\* of list being distinct
IsSubsequence(sub, list) ==
    sub = SelectSeq(list, LAMBDA e : e \in ValueSet(sub))

NoCriteria(f) ==
    /\ NoSearchTerm(f)
    /\ \A key \in {"units", "types", "methods", "positions"} :
          key \notin DOMAIN f \/ f[key] = <<>>

\* C20: a search leaves the store as it was and, when it returns, gives a
\* subsequence of the stored points in their order, the whole store in
\* unchanged order when there are no criteria; the same holds for the
\* points the page displays for its search input.
C20_SubsequenceInOrder ==
    [][/\ isolationPointsMap' = isolationPointsMap
       /\ (searchResult'.called /\ searchResult'.error = "")
             => /\ IsSubsequence(searchResult'.points, isolationPointsMap)
                /\ NoCriteria(filters) =>
                      searchResult'.points = isolationPointsMap
       /\ IsSubsequence(displayPoints', isolationPointsMap)
       /\ globalSearch' = <<>> => displayPoints' = isolationPointsMap]_vars

\* a search with criteria returned two or more points but not all, and the
\* page displays some but not all points for its search input
C20_Witness ==
    /\ searchResult.called
    /\ searchResult.error = ""
    /\ ~NoCriteria(filters)
    /\ Len(searchResult.points) >= 2
    /\ Len(searchResult.points) < Len(isolationPointsMap)
    /\ globalSearch # <<>>
    /\ Len(displayPoints) >= 1
    /\ Len(displayPoints) < Len(isolationPointsMap)

-----------------------------------------------------------------------------
(* Properties of the search term *)

\* the lower-cased term is a substring of the lower-cased value of one of
\* the ten columns, a null column counting as the empty text
MatchesTerm(point, term) ==
    \E c \in 1..Len(SearchedColumns) :
        LET value == point[SearchedColumns[c]]
        IN  IncludesText(IF value = NullText THEN <<>> ELSE ToLowerCase(value),
                         ToLowerCase(term))

\* C21: a search for a term that returns selects a stored point iff the
\* lower-cased term is a substring of the lower-cased value of one of its
\* ten text columns, in the array of the memory storage, in the rows of the
\* database storage and in the points the page displays.
C21_TermInAnyColumn ==
    /\ (searchResult.called /\ searchResult.error = "")
          => \A k \in 1..Len(isolationPointsMap) :
                LET point == isolationPointsMap[k]
                IN  /\ point \in ValueSet(searchResult.points)
                          <=> MatchesTerm(point, filters.search)
                    /\ point \in searchResult.rows
                          <=> MatchesTerm(point, filters.search)
    /\ \A k \in 1..Len(isolationPointsMap) :
          isolationPointsMap[k] \in ValueSet(displayPoints)
              <=> MatchesTerm(isolationPointsMap[k], globalSearch)

\* C22: a search never throws, whatever columns of the stored points are
\* null: it returns points of the store, in their order.
C22_SearchNeverThrows ==
    searchResult.called
        => /\ searchResult.error = ""
           /\ IsSubsequence(searchResult.points, isolationPointsMap)

-----------------------------------------------------------------------------
(* Properties of the store *)

\* C26: every saved list of the store has a name that is present, not null
\* and not blank, whether it was created by the list builder's Save action
\* or through the create endpoint.
C26_NameRequired ==
    \A k \in 1..Len(savedListsMap) :
        /\ "name" \in DOMAIN savedListsMap[k]
        /\ savedListsMap[k].name # NullText
        /\ Trim(savedListsMap[k].name) # <<>>

\* delete(id) on a map: it returns whether the map held the id, the id is
\* absent afterwards and every other record is kept
DeletePost(map, map2, op) ==
    /\ op.arg.returned = (Get(map, op.pointId) # Undefined)
    /\ Get(map2, op.pointId) = Undefined
    /\ map2 = MapDelete(map, op.pointId)

\* update(id, updateData) on a map, stamped being the fields the store sets
\* itself
UpdatePost(map, map2, op, stamped) ==
    LET old == Get(map, op.pointId)
        new == Get(map2, op.pointId)
        updateData == op.arg.updateData
    IN  IF old = Undefined
        THEN /\ op.arg.returned = Undefined
             /\ map2 = map
        ELSE /\ new # Undefined
             /\ op.arg.returned = new
             /\ DOMAIN new = DOMAIN old \cup DOMAIN updateData
             /\ new.id = old.id
             /\ new.createdAt = old.createdAt
             /\ \A key \in DOMAIN updateData : new[key] = updateData[key]
             /\ \A key \in DOMAIN old \ (DOMAIN updateData \cup stamped) :
                   new[key] = old[key]
             /\ \A key \in stamped : new[key] = Later
             /\ Len(map2) = Len(map)
             /\ MapDelete(map2, op.pointId) = MapDelete(map, op.pointId)

\* C27: in the store, delete(id) returns true iff a record with the id was
\* held, and the id is absent afterwards; update(id, partial) of an absent id
\* returns undefined and changes no record; update of an id that is held
\* keeps the id and createdAt of the record and changes the fields supplied
\* and nothing else, but updatedAt for a saved list.
C27_DeleteAndUpdate ==
    [][/\ lastOp'.op = "deletePoint"
             => DeletePost(isolationPointsMap, isolationPointsMap', lastOp')
       /\ lastOp'.op = "deleteList"
             => DeletePost(savedListsMap, savedListsMap', lastOp')
       /\ lastOp'.op = "updatePoint"
             => UpdatePost(isolationPointsMap, isolationPointsMap', lastOp',
                           {})
       /\ lastOp'.op = "updateList"
             => UpdatePost(savedListsMap, savedListsMap', lastOp',
                           {"updatedAt"})]_vars

\* a saved list seeded at construction was renamed after a catalog record
\* was deleted, and a catalog record has a method set by an update
C27_Witness ==
    /\ lastOp.op = "updateList"
    /\ lastOp.arg.returned # Undefined
    /\ DOMAIN lastOp.arg.updateData = {"name"}
    /\ lastOp.arg.returned.createdAt = Constructed
    /\ lastOp.arg.returned.updatedAt = Later
    /\ Len(isolationPointsMap) < NumPoints
    /\ \E k \in 1..Len(isolationPointsMap) :
          isolationPointsMap[k] # SamplePoint(isolationPointsMap[k].id)

\* the ids of the records of a map are below the counter
BelowCounter(map, counter) == \A k \in 1..Len(map) : map[k].id < counter

\* a create that set the counter from counter to counter2: the id is at
\* least the old counter and below the new one, the id resolves to the
\* record returned, and every record held before is kept
CreatePost(map, map2, counter, counter2, op) ==
    /\ op.pointId >= counter
    /\ op.pointId < counter2
    /\ op.arg.returned.id = op.pointId
    /\ Get(map2, op.pointId) = op.arg.returned
    /\ MapDelete(map2, op.pointId) = map

\* C30: every record the store holds has an id below the counter of its
\* kind, the counters never go down (a delete leaves them alone), and a
\* created record gets an id that is at least the counter and is held by no
\* other record: its id is greater than every id given out before to a
\* record of its kind, deleted since or not, and no id ever resolves to a
\* record other than the one it was given to.
C30_IdsNeverReused ==
    [][/\ BelowCounter(isolationPointsMap, currentIsolationPointId)
       /\ BelowCounter(isolationPointsMap', currentIsolationPointId')
       /\ BelowCounter(savedListsMap, currentSavedListId)
       /\ BelowCounter(savedListsMap', currentSavedListId')
       /\ currentIsolationPointId' >= currentIsolationPointId
       /\ currentSavedListId' >= currentSavedListId
       /\ \A i, j \in 1..Len(isolationPointsMap') :
             i # j => isolationPointsMap'[i].id # isolationPointsMap'[j].id
       /\ \A i, j \in 1..Len(savedListsMap') :
             i # j => savedListsMap'[i].id # savedListsMap'[j].id
       /\ lastOp'.op = "createPoint"
             => CreatePost(isolationPointsMap, isolationPointsMap',
                           currentIsolationPointId, currentIsolationPointId',
                           lastOp')
       /\ lastOp'.op = "createList"
             => CreatePost(savedListsMap, savedListsMap',
                           currentSavedListId, currentSavedListId', lastOp')
       /\ lastOp'.op \in {"deletePoint", "deleteList"}
             => UNCHANGED <<currentIsolationPointId, currentSavedListId>>]_vars

\* a saved list was created after a saved list was deleted, and a catalog
\* record was created after a catalog record was deleted
C30_Witness ==
    /\ lastOp.op = "createList"
    /\ Len(savedListsMap) <= Len(SampleLists)
    /\ currentIsolationPointId > NumPoints + 1
    /\ Len(isolationPointsMap) <= NumPoints
    /\ Get(isolationPointsMap, NumPoints + 1) # Undefined
    /\ Get(savedListsMap, lastOp.pointId) = lastOp.arg.returned

-----------------------------------------------------------------------------
(* Properties of the drag and of the table pages *)

\* C28: a dragOver that changes the list moves the dragged entry, the one at
\* draggedIndex, to the hovered index and nothing else: the list it leaves
\* has no undefined entry, is a permutation of the list it found, holds the
\* dragged entry at the new draggedIndex and the other entries in the order
\* they had; this also when the list got shorter since dragStart.
C28_DragMovesDragged ==
    [][(lastOp'.op = "dragOver" /\ currentList' # currentList)
          => /\ \A k \in 1..Len(currentList') : currentList'[k] # Undefined
             /\ IsPermutationOf(currentList', currentList)
             /\ draggedIndex' \in 0..(Len(currentList') - 1)
             /\ currentList'[draggedIndex' + 1] = At(currentList, draggedIndex)
             /\ SpliceRemove(currentList', draggedIndex')
                   = SpliceRemove(currentList, draggedIndex)]_vars

\* C29: whatever the clicks on Previous, Next and the page buttons and the
\* changes of the points given to the table, currentPage is within
\* 1..max(1, totalPages), the slice does not start below 0, and the page
\* shown has a row whenever the table was given a point.
C29_PageInRange ==
    /\ currentPage \in 1..Max(1, totalPages)
    /\ startIndex >= 0
    /\ Len(tablePoints) > 0 => Len(currentPoints) > 0

====
